---- MODULE Spec2Model ----
(* A model of pydocmd/loader.py: PythonLoader.load_section and                *)
(* get_function_signature.  Python strings are sequences of one-character     *)
(* strings, so that rsplit, the `in` substring test, dedent and the           *)
(* concatenations of the loader are computed and not assumed.                 *)
EXTENDS Integers, Sequences, FiniteSets, TLC

VARIABLES env, sections, calls, raised, sig, first, direct

vars == <<env, sections, calls, raised, sig, first, direct>>

(* ------------------------------------------------------------------------ *)
(* Bounds                                                                   *)
(* ------------------------------------------------------------------------ *)

\* How many times load_section is invoked on one Section.
MaxCalls == 2

\* The Sections the caller creates, all carrying the same identifier.
SectionIds == {1, 2}

(* ------------------------------------------------------------------------ *)
(* Python values                                                            *)
(* ------------------------------------------------------------------------ *)

\* None, and an attribute that getattr/hasattr does not find.  Both are
\* one-element sequences of a long string, so they differ from every text.
None == <<"None">>
NoAttr == <<"NoAttr">>

S_namedtuple == <<"n", "a", "m", "e", "d", "t", "u", "p", "l", "e">>
S_init == <<"_", "_", "i", "n", "i", "t", "_", "_">>
S_Constructor == <<"C", "o", "n", "s", "t", "r", "u", "c", "t", "o", "r", " ", "_", "_", "i", "n", "i", "t", "_", "_">>
SUFFIX_namedtuple == <<" ", "n", "a", "m", "e", "d", "t", "u", "p", "l", "e">>
SUFFIX_class == <<" ", "c", "l", "a", "s", "s">>
SUFFIX_function == <<" ", "f", "u", "n", "c", "t", "i", "o", "n">>
\* The backquote character, which a TLA+ string cannot hold.
BQ == "bq"
FENCE_open == <<BQ, BQ, BQ, "p", "y", "t", "h", "o", "n", "\n">>
FENCE_close == <<"\n", BQ, BQ, BQ, "\n">>
DOT == <<".">>
COMMA == <<",", " ">>
NEWLINE == <<"\n">>

\* '.' in s
HasDot(s) == \E i \in 1..Len(s) : s[i] = "."

\* RSplitDot split at the first '.' instead of the last: s.split('.', 1)[1]
RSplitDot_first(s) ==
  LET i == CHOOSE k \in 1..Len(s) :
             s[k] = "." /\ \A j \in 1..(k-1) : s[j] # "."
  IN SubSeq(s, i + 1, Len(s))

\* s.rsplit('.', 1)[1], for s containing a '.'
RSplitDot(s) ==
  LET i == CHOOSE k \in 1..Len(s) :
             s[k] = "." /\ \A j \in (k+1)..Len(s) : s[j] # "."
  IN SubSeq(s, i + 1, Len(s))

\* sub in s
Contains(s, sub) ==
  \E i \in 1..(Len(s) - Len(sub) + 1) : SubSeq(s, i, i + Len(sub) - 1) = sub

\* s.endswith(suffix)
EndsWith(s, suffix) ==
  /\ Len(s) >= Len(suffix)
  /\ SubSeq(s, Len(s) - Len(suffix) + 1, Len(s)) = suffix

\* s.startswith(prefix)
StartsWith(s, prefix) ==
  /\ Len(s) >= Len(prefix)
  /\ SubSeq(s, 1, Len(prefix)) = prefix

\* sep.join(parts)
RECURSIVE Join(_, _)
Join(parts, sep) ==
  IF parts = <<>> THEN <<>>
  ELSE IF Len(parts) = 1 THEN parts[1]
  ELSE parts[1] \o sep \o Join(Tail(parts), sep)

\* s.split('\n')
RECURSIVE SplitLines(_)
SplitLines(s) ==
  IF \A i \in 1..Len(s) : s[i] # "\n" THEN <<s>>
  ELSE LET i == CHOOSE k \in 1..Len(s) :
                  s[k] = "\n" /\ \A j \in 1..(k-1) : s[j] # "\n"
       IN <<SubSeq(s, 1, i - 1)>> \o SplitLines(SubSeq(s, i + 1, Len(s)))

IsWs(c) == c \in {" ", "\t"}

\* A line of spaces and tabs only (the empty line included).
IsBlank(line) == \A i \in 1..Len(line) : IsWs(line[i])

\* The leading run of spaces and tabs of a line.
Indent(line) ==
  LET n == CHOOSE k \in 0..Len(line) :
             /\ \A j \in 1..k : IsWs(line[j])
             /\ (k < Len(line) => ~IsWs(line[k + 1]))
  IN SubSeq(line, 1, n)

\* The longest common prefix of two texts.
CommonPrefix(a, b) ==
  LET m == IF Len(a) < Len(b) THEN Len(a) ELSE Len(b)
      n == CHOOSE k \in 0..m :
             /\ \A j \in 1..k : a[j] = b[j]
             /\ (k < m => a[k + 1] # b[k + 1])
  IN SubSeq(a, 1, n)

RECURSIVE Margin(_)
\* The longest whitespace prefix shared by the non-blank lines.
Margin(lines) ==
  IF Len(lines) = 1 THEN Indent(lines[1])
  ELSE CommonPrefix(Indent(lines[1]), Margin(Tail(lines)))

\* textwrap.dedent: blank lines are normalised to empty lines, the margin
\* shared by the non-blank lines is removed from each of them.
dedent(text) ==
  LET lines == SplitLines(text)
      solid == SelectSeq(lines, LAMBDA l : ~IsBlank(l))
      margin == IF solid = <<>> THEN <<>> ELSE Margin(solid)
      strip(l) == IF IsBlank(l) THEN <<>> ELSE SubSeq(l, Len(margin) + 1, Len(l))
  IN Join([i \in 1..Len(lines) |-> strip(lines[i])], NEWLINE)

Digit(d) == <<"0", "1", "2", "3", "4", "5", "6", "7", "8", "9">>[d + 1]

RECURSIVE IntStr(_)
IntStr(n) ==
  IF n < 0 THEN <<"-">> \o IntStr(0 - n)
  ELSE IF n < 10 THEN <<Digit(n)>>
  ELSE IntStr(n \div 10) \o <<Digit(n % 10)>>

\* A default value: an int, a str without quotes or escapes, or None.
IntVal(n) == [t |-> "int", i |-> n, s |-> <<>>]
StrVal(x) == [t |-> "str", i |-> 0, s |-> x]
NoneVal == [t |-> "none", i |-> 0, s |-> <<>>]

\* repr(value), the '{!r}' conversion
Repr(v) ==
  IF v.t = "int" THEN IntStr(v.i)
  ELSE IF v.t = "str" THEN <<"'">> \o v.s \o <<"'">>
  ELSE <<"N", "o", "n", "e">>

(* ------------------------------------------------------------------------ *)
(* The entities an identifier resolves to                                   *)
(* ------------------------------------------------------------------------ *)

\* What the loader reads of an object: __name__ (NoAttr when the object has
\* none), __module__, __doc__, the attributes isnamedtuple looks for,
\* inspect.isclass, callable, and its parameters as inspect reports them.
\*   pyfunc         inspect.getargspec accepts it (a Python function or method)
\*   introspectable inspect.signature finds a signature for it
Ent(name, doc, has_fields, asdict, isclass, iscallable, pyfunc, introspectable, params) ==
  [name |-> name, module |-> <<"m">>, doc |-> doc,
   has_fields |-> has_fields, asdict |-> asdict,
   isclass |-> isclass, callable |-> iscallable,
   pyfunc |-> pyfunc, introspectable |-> introspectable,
   args |-> params.args, defaults |-> params.defaults, varargs |-> params.varargs,
   kwonly |-> params.kwonly, keywords |-> params.keywords]

Params(args, defaults, varargs, kwonly, keywords) ==
  [args |-> args, defaults |-> defaults, varargs |-> varargs,
   kwonly |-> kwonly, keywords |-> keywords]

NoParams == Params(<<>>, <<>>, None, <<>>, None)

\* (a, b=2, *args, **kw)
P_example == Params(<< <<"a">>, <<"b">> >>, << IntVal(2) >>, <<"a", "r", "g", "s">>, <<>>, <<"k", "w">>)
\* (self, x='s', y=None)
P_init == Params(<< <<"s", "e", "l", "f">>, <<"x">>, <<"y">> >>, << StrVal(<<"s">>), NoneVal >>, None, <<>>, None)
\* (x=-10)
P_alldefault == Params(<< <<"x">> >>, << IntVal(0 - 10) >>, None, <<>>, None)
\* (x)
P_x == Params(<< <<"x">> >>, <<>>, None, <<>>, None)
\* (a, *, k)
P_kwonly == Params(<< <<"a">> >>, <<>>, None, << <<"k">> >>, None)
\* (*a, k, **kw)
P_varkwonly == Params(<<>>, <<>>, <<"a">>, << <<"k">> >>, <<"k", "w">>)

DOC_indented == <<" ", " ", "a", "\n", " ", "\n", " ", " ", " ", "b", "\n">>
DOC_plain == <<"d">>
DOC_nt == <<"a", " ", "n", "a", "m", "e", "d", "t", "u", "p", "l", "e">>

N_f == <<"f">>
N_C == <<"C">>
N_P == <<"P">>

\* def f(a, b=2, *args, **kw): with an indented docstring
E_function == Ent(N_f, DOC_indented, FALSE, "absent", FALSE, TRUE, TRUE, TRUE, P_example)
\* def f(x=-10): without a docstring
E_function_nodoc == Ent(N_f, None, FALSE, "absent", FALSE, TRUE, TRUE, TRUE, P_alldefault)
\* def f(): whose docstring mentions namedtuple
E_function_ntdoc == Ent(N_f, DOC_nt, FALSE, "absent", FALSE, TRUE, TRUE, TRUE, NoParams)
\* def f(a, *, k):
E_function_kwonly == Ent(N_f, DOC_plain, FALSE, "absent", FALSE, TRUE, TRUE, TRUE, P_kwonly)
\* def f(*a, k, **kw):
E_function_varkwonly == Ent(N_f, None, FALSE, "absent", FALSE, TRUE, TRUE, TRUE, P_varkwonly)
\* def __init__(self, x='s', y=None):
E_init == Ent(S_init, DOC_plain, FALSE, "absent", FALSE, TRUE, TRUE, TRUE, P_init)
\* def __init__(self, x='s', y=None): without a docstring
E_init_nodoc == Ent(S_init, None, FALSE, "absent", FALSE, TRUE, TRUE, TRUE, P_init)
\* a built-in function for which inspect finds no signature
E_builtin == Ent(N_f, DOC_plain, FALSE, "absent", FALSE, TRUE, FALSE, FALSE, NoParams)
\* class C: with a docstring
E_class == Ent(N_C, DOC_indented, FALSE, "absent", TRUE, TRUE, FALSE, TRUE, P_alldefault)
\* class C: without a docstring
E_class_nodoc == Ent(N_C, None, FALSE, "absent", TRUE, TRUE, FALSE, TRUE, NoParams)
\* class C: whose docstring mentions namedtuple
E_class_ntdoc == Ent(N_C, DOC_nt, FALSE, "absent", TRUE, TRUE, FALSE, TRUE, NoParams)
\* a built-in class for which inspect finds no signature
E_class_builtin == Ent(N_C, DOC_plain, FALSE, "absent", TRUE, TRUE, FALSE, FALSE, NoParams)
\* P = collections.namedtuple('P', 'x'): a class with _fields and _asdict
E_namedtuple == Ent(N_P, <<"P", "(", "x", ",", ")">>, TRUE, "callable", TRUE, TRUE, FALSE, TRUE, P_x)
\* an instance of P: not callable, no __name__, the docstring of its class
E_namedtuple_instance == Ent(NoAttr, <<"P", "(", "x", ",", ")">>, TRUE, "callable", FALSE, FALSE, FALSE, FALSE, NoParams)
\* a function given _fields and a callable _asdict
E_namedtuple_function == Ent(N_f, DOC_plain, TRUE, "callable", FALSE, TRUE, TRUE, TRUE, NoParams)
\* a function given _fields and an _asdict that is not callable
E_fields_function == Ent(N_f, DOC_plain, TRUE, "attr", FALSE, TRUE, TRUE, TRUE, NoParams)
\* a constant: not callable, no __name__, no docstring
E_constant == Ent(NoAttr, None, FALSE, "absent", FALSE, FALSE, FALSE, FALSE, NoParams)
\* a constant with a docstring made of blanks
E_constant_blankdoc == Ent(NoAttr, <<" ", " ">>, FALSE, "absent", FALSE, FALSE, FALSE, FALSE, NoParams)
\* an instance with __call__ and no __name__ (a functools.partial)
E_callable_instance == Ent(NoAttr, DOC_plain, FALSE, "absent", FALSE, TRUE, FALSE, TRUE, NoParams)
\* the same, its docstring mentioning namedtuple
E_callable_instance_ntdoc == Ent(NoAttr, DOC_nt, FALSE, "absent", FALSE, TRUE, FALSE, TRUE, NoParams)

Entities ==
  {E_function, E_function_nodoc, E_function_ntdoc, E_function_kwonly,
   E_function_varkwonly, E_init, E_init_nodoc, E_builtin,
   E_class, E_class_nodoc, E_class_ntdoc, E_class_builtin,
   E_namedtuple, E_namedtuple_instance, E_namedtuple_function, E_fields_function,
   E_constant, E_constant_blankdoc, E_callable_instance, E_callable_instance_ntdoc}

\* The scope of a resolved entity: the enclosing module or class.
ModuleScope == [isclass |-> FALSE, name |-> <<"m">>]
ClassScope == [isclass |-> TRUE, name |-> N_C]
OtherClassScope == [isclass |-> TRUE, name |-> <<"D", "1">>]
\* None passed where a class is expected
NoneScope == [isclass |-> FALSE, name |-> None]

Scopes == {ModuleScope, ClassScope}

ID_f == <<"f">>
ID_mf == <<"m", ".", "f">>
ID_mCf == <<"m", ".", "C", ".", "f">>
ID_minit == <<"m", ".", "_", "_", "i", "n", "i", "t", "_", "_">>
ID_init == <<"m", ".", "C", ".", "_", "_", "i", "n", "i", "t", "_", "_">>

Identifiers == {ID_f, ID_mf, ID_mCf, ID_minit, ID_init}

\* The number of '.' in an identifier.
Dots(s) == Cardinality({i \in 1..Len(s) : s[i] = "."})

(* ------------------------------------------------------------------------ *)
(* loader.py                                                                *)
(* ------------------------------------------------------------------------ *)

\* isnamedtuple(o): hasattr(o, "_fields") and hasattr(o, "_asdict") and
\* callable(o._asdict)
isnamedtuple(o) ==
  o.has_fields /\ o.asdict # "absent" /\ o.asdict = "callable"

\* A raised exception, or the value returned.
Raise(exc) == [raised |-> exc, value |-> <<>>]
Return(v) == [raised |-> "", value |-> v]

\* ArgspecArgs with the defaults put on the first parameters (offset 0).
ArgspecArgs_headdefaults(function) ==
  LET args == [i \in 1..Len(function.args) |->
                 IF i <= Len(function.defaults)
                 THEN function.args[i] \o <<"=">> \o Repr(function.defaults[i])
                 ELSE function.args[i]]
      withvarargs == IF function.varargs # None
                     THEN args \o << <<"*">> \o function.varargs >>
                     ELSE args
  IN IF function.keywords # None
     THEN withvarargs \o << <<"*", "*">> \o function.keywords >>
     ELSE withvarargs

\* The argument list of the inspect.getargspec branch.
ArgspecArgs(function) ==
  LET offset == Len(function.args) - Len(function.defaults)
      args == [i \in 1..Len(function.args) |->
                 IF function.defaults # <<>> /\ i > offset
                 THEN function.args[i] \o <<"=">> \o Repr(function.defaults[i - offset])
                 ELSE function.args[i]]
      withvarargs == IF function.varargs # None
                     THEN args \o << <<"*">> \o function.varargs >>
                     ELSE args
  IN IF function.keywords # None
     THEN withvarargs \o << <<"*", "*">> \o function.keywords >>
     ELSE withvarargs

\* inspect.getargspec(function) and the text built from it: TypeError for
\* what is not a Python function, ValueError for keyword-only parameters.
ArgspecSig(function) ==
  IF ~function.pyfunc THEN Raise("TypeError")
  ELSE IF function.kwonly # <<>> THEN Raise("ValueError")
  ELSE Return(<<"(">> \o Join(ArgspecArgs(function), COMMA) \o <<")">>)

\* str(inspect.signature(function)): TypeError for what is not callable,
\* ValueError when no signature is found; the parameters in the order
\* positional, *varargs (or a bare * before keyword-only ones),
\* keyword-only, **keywords.
SignatureSig(function) ==
  LET n == Len(function.args)
      d == Len(function.defaults)
      positional == [i \in 1..n |->
                       IF i > n - d
                       THEN function.args[i] \o <<"=">> \o Repr(function.defaults[i - (n - d)])
                       ELSE function.args[i]]
      star == IF function.varargs # None THEN << <<"*">> \o function.varargs >>
              ELSE IF function.kwonly # <<>> THEN << <<"*">> >>
              ELSE <<>>
      kw == IF function.keywords # None THEN << <<"*", "*">> \o function.keywords >>
            ELSE <<>>
  IN IF ~function.callable THEN Raise("TypeError")
     ELSE IF ~function.introspectable THEN Raise("ValueError")
     ELSE Return(<<"(">> \o Join(positional \o star \o function.kwonly \o kw, COMMA) \o <<")">>)

\* SignatureName without the test that drops '__init__'.
SignatureName_keepinit(function, owner_class, show_module) ==
  LET m == IF show_module THEN << function.module >> ELSE <<>>
      o == IF owner_class # NoneScope THEN << owner_class.name >> ELSE <<>>
  IN Join(m \o o \o << function.name >>, DOT)

\* The name parts of get_function_signature, joined with '.'.
SignatureName(function, owner_class, show_module) ==
  LET m == IF show_module THEN << function.module >> ELSE <<>>
      o == IF owner_class # NoneScope THEN << owner_class.name >> ELSE <<>>
      f == IF function.name # S_init THEN << function.name >> ELSE <<>>
  IN Join(m \o o \o f, DOT)

\* get_function_signature(function, owner_class=None, show_module=False)
get_function_signature(function, owner_class, show_module) ==
  IF function.name = NoAttr THEN Raise("AttributeError")
  ELSE LET name == SignatureName(function, owner_class, show_module)
           s == IF env.hasSignature THEN SignatureSig(function)
                ELSE ArgspecSig(function)
       IN IF s.raised # "" THEN s ELSE Return(name \o s.value)

\* A Section as its caller creates it: only the identifier is set.
NewSection(identifier) ==
  [identifier |-> identifier, title |-> None, content |-> None, loader_context |-> {}]

\* import_object_with_scope(identifier): the entity and its scope, or a
\* lookup error when a segment of the path is not found.
import_object_with_scope(identifier) ==
  IF env.found /\ identifier = env.identifier
  THEN [raised |-> "", obj |-> env.obj, scope |-> env.scope]
  ELSE [raised |-> "ImportError", obj |-> env.obj, scope |-> env.scope]

\* The title when the entity has no __name__.
default_title(identifier) ==
  IF HasDot(identifier) THEN RSplitDot(identifier) ELSE identifier

\* getattr(obj, '__name__', default_title), '__init__' substituted
Title(obj, identifier) ==
  LET title == IF obj.name # NoAttr THEN obj.name ELSE default_title(identifier)
  IN IF title = S_init THEN S_Constructor ELSE title

\* Content without the `or ''`: a missing docstring becomes the text 'None'.
Content_strnone(obj) ==
  dedent(IF obj.doc = None THEN <<"N", "o", "n", "e">> ELSE obj.doc)

\* dedent(getattr(obj, '__doc__', None) or '')
Content(obj) ==
  dedent(IF obj.doc = None \/ obj.doc = <<>> THEN <<>> ELSE obj.doc)

\* TitleSuffix with the class test before the named-tuple test.
TitleSuffix_classfirst(obj, scope) ==
  IF obj.isclass THEN SUFFIX_class
  ELSE IF isnamedtuple(obj) THEN SUFFIX_namedtuple
  ELSE IF obj.callable /\ ~scope.isclass THEN SUFFIX_function
  ELSE <<>>

\* The type appended to the title.
TitleSuffix(obj, scope) ==
  IF isnamedtuple(obj) THEN SUFFIX_namedtuple
  ELSE IF obj.isclass THEN SUFFIX_class
  ELSE IF obj.callable /\ ~scope.isclass THEN SUFFIX_function
  ELSE <<>>

\* Assigned with the title set only when the section has none yet.
Assigned_keeptitle(section, obj, scope) ==
  LET set == [section EXCEPT !.title = IF section.title = None
                                       THEN Title(obj, section.identifier)
                                       ELSE section.title,
                             !.content = Content(obj),
                             !.loader_context = {[obj |-> obj, scope |-> scope]}]
  IN [set EXCEPT !.title = set.title \o TitleSuffix(obj, scope)]

\* The three assignments to the section, then the += on its title.
Assigned(section, obj, scope) ==
  LET set == [section EXCEPT !.title = Title(obj, section.identifier),
                             !.content = Content(obj),
                             !.loader_context = {[obj |-> obj, scope |-> scope]}]
  IN [set EXCEPT !.title = set.title \o TitleSuffix(obj, scope)]

\* WantsSignature without the test for 'namedtuple' in the content.
WantsSignature_callableonly(section, obj) == obj.callable

\* Whether the signature is asked for.
WantsSignature(section, obj) ==
  obj.callable /\ ~Contains(section.content, S_namedtuple)

\* The code block put before the content.
CodeBlock(s) == FENCE_open \o s \o FENCE_close

\* WithSignature without the test that leaves classes alone.
WithSignature_always(section, obj, s) ==
  [section EXCEPT !.content = CodeBlock(s) \o section.content]

\* The content once the signature is known.
WithSignature(section, obj, s) ==
  IF ~obj.isclass
  THEN [section EXCEPT !.content = CodeBlock(s) \o section.content]
  ELSE section

\* PythonLoader.load_section(section): the section as the call leaves it,
\* the exception it raised ("" when it returned) and its local sig.
load_section(section) ==
  IF section.identifier = None
  THEN [section |-> section, raised |-> "AssertionError", sig |-> None]
  ELSE LET r == import_object_with_scope(section.identifier)
       IN IF r.raised # ""
          THEN [section |-> section, raised |-> r.raised, sig |-> None]
          ELSE LET a == Assigned(section, r.obj, r.scope)
               IN IF WantsSignature(a, r.obj)
                  THEN LET q == get_function_signature(
                                  r.obj, IF r.scope.isclass THEN r.scope ELSE NoneScope, FALSE)
                       IN IF q.raised # ""
                          THEN [section |-> a, raised |-> q.raised, sig |-> None]
                          ELSE [section |-> WithSignature(a, r.obj, q.value),
                                raised |-> "", sig |-> q.value]
                  ELSE [section |-> a, raised |-> "", sig |-> None]

(* ------------------------------------------------------------------------ *)
(* The state machine                                                        *)
(* ------------------------------------------------------------------------ *)

\* No call of get_function_signature made yet.
NoDirect ==
  [called |-> FALSE, function |-> E_constant, owner_class |-> NoneScope,
   show_module |-> FALSE, result |-> Return(<<>>)]

\* The caller's identifier and what the interpreter holds for it.  An
\* identifier of fewer than two dots names a member of a module.
Envs ==
  { [identifier |-> i, found |-> f, obj |-> o, scope |-> sc, hasSignature |-> h] :
      i \in Identifiers \cup {None}, f \in BOOLEAN, o \in Entities,
      sc \in Scopes, h \in BOOLEAN }

EnvOk(e) ==
  /\ (e.identifier = None => ~e.found)
  /\ (~e.found => e.obj = E_constant /\ e.scope = ModuleScope)
  /\ (e.found /\ Dots(e.identifier) < 2 => e.scope = ModuleScope)

Init ==
  /\ env \in {e \in Envs : EnvOk(e)}
  /\ sections = [s \in SectionIds |-> NewSection(env.identifier)]
  /\ calls = [s \in SectionIds |-> 0]
  /\ raised = [s \in SectionIds |-> ""]
  /\ sig = [s \in SectionIds |-> None]
  /\ first = sections
  /\ direct = NoDirect

\* loader.load_section(sections[s])
LoadSection(s) ==
  /\ calls[s] < MaxCalls
  /\ LET r == load_section(sections[s])
     IN /\ sections' = [sections EXCEPT ![s] = r.section]
        /\ raised' = [raised EXCEPT ![s] = r.raised]
        /\ sig' = [sig EXCEPT ![s] = r.sig]
        /\ first' = IF calls[s] = 0 THEN [first EXCEPT ![s] = r.section] ELSE first
  /\ calls' = [calls EXCEPT ![s] = calls[s] + 1]
  /\ UNCHANGED <<env, direct>>

Next == \E s \in SectionIds : LoadSection(s)

Spec == Init /\ [][Next]_vars

\* The owner classes and flags get_function_signature is called with.
Owners == {NoneScope, ClassScope, OtherClassScope}

InitSig ==
  /\ env \in {e \in Envs : e.identifier = None /\ EnvOk(e)}
  /\ sections = [s \in SectionIds |-> NewSection(env.identifier)]
  /\ calls = [s \in SectionIds |-> 0]
  /\ raised = [s \in SectionIds |-> ""]
  /\ sig = [s \in SectionIds |-> None]
  /\ first = sections
  /\ direct = NoDirect

\* get_function_signature(function, owner_class, show_module), called directly
CallSignature ==
  /\ \E function \in Entities, owner_class \in Owners, show_module \in BOOLEAN :
       direct' = [called |-> TRUE, function |-> function, owner_class |-> owner_class,
                  show_module |-> show_module,
                  result |-> get_function_signature(function, owner_class, show_module)]
  /\ UNCHANGED <<env, sections, calls, raised, sig, first>>

NextSig == CallSignature

SpecSig == InitSig /\ [][NextSig]_vars

(* ------------------------------------------------------------------------ *)
(* Properties                                                               *)
(* ------------------------------------------------------------------------ *)

\* load_section was called on section s and returned.
Loaded(s) == calls[s] >= 1 /\ raised[s] = ""

\* load_section was called on section s and the identifier was resolved.
Resolved(s) == calls[s] >= 1 /\ raised[s] \notin {"AssertionError", "ImportError"}

\* The dedented docstring of the resolved entity ('' when it has none).
Docstring == IF env.obj.doc = None THEN <<>> ELSE dedent(env.obj.doc)

\* The suffix the classification rules give, each rule with the negation of
\* the rules before it.
ExpectedSuffix ==
  CASE isnamedtuple(env.obj) -> SUFFIX_namedtuple
    [] ~isnamedtuple(env.obj) /\ env.obj.isclass -> SUFFIX_class
    [] ~isnamedtuple(env.obj) /\ ~env.obj.isclass
         /\ env.obj.callable /\ ~env.scope.isclass -> SUFFIX_function
    [] OTHER -> <<>>

\* The last path segment of an identifier: what follows its last '.', the
\* whole identifier when it has none.
IsLastSegment(seg, identifier) ==
  \E k \in 0..Len(identifier) :
    /\ seg = SubSeq(identifier, k + 1, Len(identifier))
    /\ \A j \in (k + 1)..Len(identifier) : identifier[j] # "."
    /\ (k = 0 \/ identifier[k] = ".")

\* The title before the suffix: the intrinsic name or the last segment,
\* '__init__' replaced.
IsBaseTitle(base) ==
  \E t \in {env.obj.name} \cup {SubSeq(env.identifier, k, Len(env.identifier)) :
                                  k \in 1..Len(env.identifier)} :
    /\ IF env.obj.name # NoAttr THEN t = env.obj.name
       ELSE IsLastSegment(t, env.identifier)
    /\ base = IF t = S_init THEN S_Constructor ELSE t

AllSuffixes == {SUFFIX_namedtuple, SUFFIX_class, SUFFIX_function}

\* The part of a signature before its '('.
NamePart(s) ==
  LET i == CHOOSE k \in 1..Len(s) : s[k] = "(" /\ \A j \in 1..(k - 1) : s[j] # "("
  IN SubSeq(s, 1, i - 1)

\* C1: once the identifier is resolved, the title is the base title followed
\* by the suffix of the first matching rule (namedtuple, class, function of a
\* non-class scope, none), and by no second suffix.
C1_TitleSuffix ==
  \A s \in SectionIds :
    Resolved(s) =>
      /\ \E base \in {SubSeq(sections[s].title, 1, k) : k \in 0..Len(sections[s].title)} :
           /\ IsBaseTitle(base)
           /\ sections[s].title = base \o ExpectedSuffix
      /\ \A x \in AllSuffixes, y \in AllSuffixes :
           ~EndsWith(sections[s].title, x \o y)

\* C1 witness: a namedtuple class, which matches the first two rules, loaded.
C1_Witness ==
  \E s \in SectionIds :
    /\ Loaded(s) /\ isnamedtuple(env.obj) /\ env.obj.isclass
    /\ EndsWith(sections[s].title, SUFFIX_namedtuple)

C3_NoPartialResult ==
  \A s \in SectionIds :
    calls[s] >= 1 =>
      \/ /\ raised[s] = ""
         /\ sections[s].title # None
         /\ sections[s].content # None
         /\ sections[s].loader_context # {}
      \/ /\ raised[s] # ""
         /\ sections[s].title = None
         /\ sections[s].content = None
         /\ sections[s].loader_context = {}

\* The parameters as the claim renders them: 'name' or 'name=repr(default)',
\* the defaults on the last len(defaults) parameters, then '*varargs', then
\* '**keywords'.
ClaimedParams(function) ==
  LET n == Len(function.args)
      d == Len(function.defaults)
      one(i) == IF i <= n - d THEN function.args[i]
                ELSE function.args[i] \o <<"=">> \o Repr(function.defaults[i - n + d])
  IN [i \in 1..n |-> one(i)]
       \o (IF function.varargs = None THEN <<>> ELSE << <<"*">> \o function.varargs >>)
       \o (IF function.keywords = None THEN <<>> ELSE << <<"*", "*">> \o function.keywords >>)

\* The module name if show_module, then the owner class name if one is given.
ClaimedPrefix ==
  (IF direct.show_module THEN << direct.function.module >> ELSE <<>>)
    \o (IF direct.owner_class # NoneScope THEN << direct.owner_class.name >> ELSE <<>>)

\* get_function_signature returned, for a callable whose parameters are
\* positional ones, *varargs and **keywords only.
DirectReturned ==
  direct.called /\ direct.result.raised = "" /\ direct.function.kwonly = <<>>

SIG_example == <<"f", "(", "a", ",", " ", "b", "=", "2", ",", " ", "*", "a", "r", "g", "s", ",", " ", "*", "*", "k", "w", ")">>

\* C4 as stated: the signature is the dot-join of the module name (if
\* show_module), the owner class name (if given) and the callable's own name,
\* followed by the parenthesised, comma-joined parameters.
C4_Original ==
  DirectReturned =>
    direct.result.value =
      Join(ClaimedPrefix \o << direct.function.name >>, DOT)
        \o <<"(">> \o Join(ClaimedParams(direct.function), COMMA) \o <<")">>

\* C4: the signature is the dot-join of the module name (if show_module),
\* the owner class name (if given) and the callable's own name unless that
\* name is '__init__', followed by the parenthesised, comma-joined
\* parameters; f(a, b=2, *args, **kw) yields 'f(a, b=2, *args, **kw)'.
C4_Signature ==
  /\ DirectReturned =>
       direct.result.value =
         Join(ClaimedPrefix \o (IF direct.function.name = S_init THEN <<>>
                                ELSE << direct.function.name >>), DOT)
           \o <<"(">> \o Join(ClaimedParams(direct.function), COMMA) \o <<")">>
  /\ DirectReturned /\ direct.function = E_function
       /\ direct.owner_class = NoneScope /\ ~direct.show_module
       => direct.result.value = SIG_example

\* C4 witness: __init__(self, x='s', y=None) of class C rendered with the
\* module name, through the getargspec branch.
C4_Witness ==
  /\ DirectReturned /\ ~env.hasSignature
  /\ direct.function = E_init /\ direct.owner_class = ClassScope /\ direct.show_module
  /\ StartsWith(direct.result.value, <<"m", ".", "C", "(", "s", "e", "l", "f", ",">>)

\* C5 as stated: for a class, after load_section the title ends with
\* ' class', the signature is computed and the content is the dedented
\* docstring.
C5_Original ==
  \A s \in SectionIds :
    Loaded(s) /\ env.obj.isclass =>
      /\ EndsWith(sections[s].title, SUFFIX_class)
      /\ sig[s] # None
      /\ sections[s].content = Docstring

\* C5: for a class, after a successful load_section the title ends with
\* ' class' unless the class passes the named-tuple check (then it ends with
\* ' namedtuple'), the signature is computed exactly when the dedented
\* docstring does not contain 'namedtuple', and the content is the dedented
\* docstring.
C5_Class ==
  \A s \in SectionIds :
    Loaded(s) /\ env.obj.isclass =>
      /\ (~isnamedtuple(env.obj) => EndsWith(sections[s].title, SUFFIX_class))
      /\ (isnamedtuple(env.obj) => EndsWith(sections[s].title, SUFFIX_namedtuple))
      /\ (sig[s] # None <=> ~Contains(Docstring, S_namedtuple))
      /\ sections[s].content = Docstring

\* C5 witness: a documented class loaded, its signature computed and left
\* out of the content.
C5_Witness ==
  \E s \in SectionIds :
    /\ Loaded(s) /\ env.obj = E_class
    /\ sig[s] = <<"C", "(", "x", "=", "-", "1", "0", ")">>
    /\ sections[s].content = Docstring

\* C6: for an entity passing the named-tuple check, after load_section the
\* title ends with ' namedtuple' and the content is the dedented docstring
\* with no signature block before it.
C6_Namedtuple ==
  \A s \in SectionIds :
    Loaded(s) /\ isnamedtuple(env.obj) =>
      /\ EndsWith(sections[s].title, SUFFIX_namedtuple)
      /\ sections[s].content = Docstring

\* C7 as stated: for an identifier ending in '__init__' the title is exactly
\* 'Constructor __init__' and the name part of the signature omits
\* '__init__' (it is the owner class name when the scope is a class).
C7_Original ==
  \A s \in SectionIds :
    Loaded(s) /\ EndsWith(sections[s].identifier, S_init) =>
      /\ sections[s].title = S_Constructor
      /\ sig[s] # None =>
           /\ ~Contains(NamePart(sig[s]), S_init)
           /\ (env.scope.isclass => NamePart(sig[s]) = env.scope.name)

\* Whether the entity's name, or without one the last segment of the
\* identifier, is '__init__'.
NamedInit ==
  \/ env.obj.name = S_init
  \/ env.obj.name = NoAttr /\ IsLastSegment(S_init, env.identifier)

\* C7: when the entity's name (without one, the last segment of the
\* identifier) is '__init__', the title is 'Constructor __init__' followed
\* by the kind suffix, so exactly 'Constructor __init__' for a function
\* whose scope is a class; a computed signature has the owner class name as
\* its name part when the scope is a class and an empty one otherwise.
C7_Constructor ==
  \A s \in SectionIds :
    Resolved(s) /\ NamedInit =>
      /\ sections[s].title = S_Constructor \o ExpectedSuffix
      /\ (env.scope.isclass /\ ~env.obj.isclass /\ ~isnamedtuple(env.obj)
            => sections[s].title = S_Constructor)
      /\ sig[s] # None =>
           NamePart(sig[s]) = IF env.scope.isclass THEN env.scope.name ELSE <<>>

\* C7 witness: m.C.__init__ resolved to the __init__ of class C and loaded.
C7_Witness ==
  \E s \in SectionIds :
    /\ Loaded(s) /\ sections[s].identifier = ID_init
    /\ env.obj = E_init /\ env.scope = ClassScope
    /\ sections[s].title = S_Constructor
    /\ StartsWith(sig[s], <<"C", "(">>)

\* C8 as stated: without a docstring the content begins with the signature
\* block if the entity is callable and is empty otherwise.
C8_Original ==
  \A s \in SectionIds :
    Loaded(s) /\ env.obj.doc = None =>
      IF env.obj.callable
      THEN StartsWith(sections[s].content, FENCE_open)
      ELSE sections[s].content = <<>>

\* C8: without a docstring the content is the signature block if the entity
\* is callable and no class, and is empty otherwise.
C8_NoDocstring ==
  \A s \in SectionIds :
    Loaded(s) /\ env.obj.doc = None =>
      IF env.obj.callable /\ ~env.obj.isclass
      THEN sig[s] # None /\ sections[s].content = FENCE_open \o sig[s] \o FENCE_close
      ELSE sections[s].content = <<>>

\* C8 witness: an undocumented function loaded, its content the block alone.
C8_Witness ==
  \E s \in SectionIds :
    /\ Loaded(s) /\ env.obj = E_function_nodoc
    /\ sections[s].content = FENCE_open \o sig[s] \o FENCE_close

\* C9: two Sections with the same identifier are loaded to the same title,
\* content and loader_context, a Section loaded again keeps the three it
\* had after its first load, and the identifier is never changed.
C9_Idempotent ==
  /\ \A s \in SectionIds : sections[s].identifier = env.identifier
  /\ \A s \in SectionIds : calls[s] >= 2 /\ raised[s] = "" => sections[s] = first[s]
  /\ \A s \in SectionIds, t \in SectionIds :
       Loaded(s) /\ Loaded(t) => sections[s] = sections[t]

\* C9 witness: a function loaded twice into one Section and once into the
\* other, title suffix and signature block in place.
C9_Witness ==
  \E s \in SectionIds, t \in SectionIds :
    /\ s # t /\ calls[s] = 2 /\ Loaded(s) /\ Loaded(t)
    /\ env.obj = E_function /\ env.scope = ModuleScope
    /\ sections[s].title = <<"f">> \o SUFFIX_function
    /\ StartsWith(sections[s].content, FENCE_open)

\* C10: after a successful load_section the title is not empty: it is the
\* entity's __name__, or without one what follows the last '.' of the
\* identifier (the whole identifier when it has none), '__init__' replaced
\* by 'Constructor __init__', followed by the kind suffix.
C10_Title ==
  \A s \in SectionIds :
    Loaded(s) =>
      /\ sections[s].title # <<>>
      /\ \E base \in {SubSeq(sections[s].title, 1, k) : k \in 0..Len(sections[s].title)} :
           /\ IsBaseTitle(base)
           /\ sections[s].title = base \o ExpectedSuffix

\* C10 witness: a constant without a __name__ loaded under m.C.f, titled f.
C10_Witness ==
  \E s \in SectionIds :
    /\ Loaded(s) /\ env.obj.name = NoAttr /\ sections[s].identifier = ID_mCf
    /\ sections[s].title = <<"f">>

====
